---- MODULE Spec2Model ----
(* The staged pipeline of app.py (a Streamlit script whose session state   *)
(* is the pipeline state) with the leaf components of engine.py and        *)
(* agent.py.  One action per button handler; every handler runs to         *)
(* completion before the next one starts (one script run per interaction). *)
(* Log entries are modelled without their time stamp.                      *)
EXTENDS Integers, Sequences, FiniteSets, TLC

VARIABLES current_step,    \* st.session_state['current_step']
          data_state,      \* st.session_state['data_state']
          logs,            \* st.session_state['logs']
          dataset_name,    \* st.session_state['dataset_name']
          index_col,       \* st.session_state['index_col']
          api_key,         \* os.environ["OPENAI_API_KEY"] is non-empty
          data_lake,       \* the files under STORAGE_PATH, by path
          demo_collection, \* the vector collection "demo_collection"
          last             \* the handler that ran last and what it did

vars == <<current_step, data_state, logs, dataset_name, index_col,
          api_key, data_lake, demo_collection, last>>

----------------------------------------------------------------------------
(* Bounds *)

MaxLog == 6       \* handlers that log are disabled once the log is this long
MaxRows == 11     \* row count of the largest uploaded file

----------------------------------------------------------------------------
(* Values *)

None == [none |-> TRUE]          \* Python's None, for the dataset
NoCol == "<unset>"               \* 'index_col' not yet in the session state
NoFile == "<none>"               \* no file was queried

STORAGE_PATH == "./data_lake"

HeadRows == 10                   \* df.head(10)
batch_size == 100
n_results == 5

\* A DataFrame: column names, row labels (df.index) and the rows.
DataFrame(cols, idx, rws) == [columns |-> cols, index |-> idx, rows |-> rws]

RangeIndex(n) == [i \in 1..n |-> i - 1]

len(df) == Len(df.rows)

\* df.head(n): the first n rows, labels kept.
head(df, n) ==
    LET k == IF len(df) < n THEN len(df) ELSE n
    IN DataFrame(df.columns, SubSeq(df.index, 1, k), SubSeq(df.rows, 1, k))

\* pd.DataFrame()
EmptyFrame == DataFrame(<<>>, <<>>, <<>>)

----------------------------------------------------------------------------
(* Uploaded files.  A name is kept as the list name.split('.') yields;     *)
(* tag identifies the content, valid says whether the parser for the       *)
(* file's real format accepts it, nrows is its number of rows or pages.    *)

Uploads ==
    { [name |-> <<"sales", "csv">>,        tag |-> 1, valid |-> TRUE,  nrows |-> MaxRows],
      [name |-> <<"temp_staging", "csv">>, tag |-> 2, valid |-> TRUE,  nrows |-> 2],
      [name |-> <<"orders", "json">>,      tag |-> 3, valid |-> FALSE, nrows |-> 0],
      [name |-> <<"doc", "pdf">>,          tag |-> 4, valid |-> TRUE,  nrows |-> 1],
      [name |-> <<"book", "xlsx">>,        tag |-> 5, valid |-> TRUE,  nrows |-> 2],
      [name |-> <<"sales", "2024", "csv">>, tag |-> 6, valid |-> TRUE, nrows |-> 3] }

RECURSIVE JoinDots(_)
JoinDots(parts) ==
    IF Len(parts) = 1 THEN parts[1]
    ELSE parts[1] \o "." \o JoinDots(Tail(parts))

\* uploaded_file.name
FileName(f) == JoinDots(f.name)

\* What the tabular parsers (read_csv, read_excel, read_json) return.
TableOf(f) ==
    DataFrame(<<"region", "sales">>, RangeIndex(f.nrows),
              [i \in 1..f.nrows |-> <<f.tag, 100 * f.tag + i>>])

\* The per-page text table built for a PDF.
PagesOf(f) ==
    DataFrame(<<"content", "page">>, RangeIndex(f.nrows),
              [i \in 1..f.nrows |-> <<100 * f.tag + i, i>>])

----------------------------------------------------------------------------
(* engine.py: DataIngestor *)

Raise(kind, msg) == [raised |-> TRUE, error |-> kind, text |-> msg, df |-> None]
Return(df) == [raised |-> FALSE, error |-> "", text |-> "", df |-> df]

read_file(file_obj, file_type) ==
    LET inner ==
            IF file_type \in {"csv", "excel", "json"} THEN
                IF file_obj.valid THEN Return(TableOf(file_obj))
                ELSE Raise("ParserError", "parse error")
            ELSE IF file_type = "pdf" THEN
                IF file_obj.valid THEN Return(PagesOf(file_obj))
                ELSE Raise("PdfReadError", "parse error")
            ELSE Raise("ValueError", "Unsupported format: " \o file_type)
    IN IF inner.raised
       THEN Raise("RuntimeError", "Ingestion failed: " \o inner.text)
       ELSE inner

----------------------------------------------------------------------------
(* engine.py: StorageManager *)

file_path(name) == STORAGE_PATH \o "/" \o name \o ".parquet"

DatasetNames == {f.name[1] : f \in Uploads} \cup {"dataset", "temp_staging"}

LakePaths == {file_path(n) : n \in DatasetNames}

\* os.path.exists(path)
exists(lake, path) == path \in DOMAIN lake /\ lake[path] # None

\* df.to_parquet(file_path, index=False): the row labels are not written.
to_parquet(df) == DataFrame(df.columns, RangeIndex(len(df)), df.rows)

save_to_bronze_keep(lake, df, name) ==
    IF exists(lake, file_path(name)) THEN lake
    ELSE [lake EXCEPT ![file_path(name)] = to_parquet(df)]

save_to_bronze(lake, df, name) ==
    [lake EXCEPT ![file_path(name)] = to_parquet(df)]

load_dataset(lake, name) ==
    IF exists(lake, file_path(name)) THEN lake[file_path(name)] ELSE EmptyFrame

\* query.replace("CURRENT_TABLE", f"'{file_path}'"), token by token
replace(query, old, new) ==
    [i \in 1..Len(query) |-> IF query[i] = old THEN new ELSE query[i]]

quoted(path) == "'" \o path \o "'"

\* self.con.execute(query).df(): the embedded SQL engine on the statements
\* the model lets the language model write; anything else is an error, and
\* so is reading a file that does not exist.
duckdb_execute(lake, query) ==
    LET sources == {p \in DOMAIN lake : Len(query) >= 4 /\ query[4] = quoted(p)}
        well_formed ==
            /\ Len(query) \in {4, 6}
            /\ SubSeq(query, 1, 3) = <<"SELECT", "*", "FROM">>
            /\ Len(query) = 6 => SubSeq(query, 5, 6) = <<"LIMIT", "1">>
    IN IF ~well_formed THEN Raise("ParserException", "syntax error")
       ELSE IF sources = {} THEN Raise("CatalogException", "no such table")
       ELSE LET p == CHOOSE q \in sources : TRUE
            IN IF ~exists(lake, p) THEN Raise("IOException", "no files found")
               ELSE IF Len(query) = 6
                    THEN Return(to_parquet(head(lake[p], 1)))
                    ELSE Return(lake[p])

execute_sql(lake, query, name) ==
    duckdb_execute(lake, replace(query, "CURRENT_TABLE", quoted(file_path(name))))

----------------------------------------------------------------------------
(* engine.py: SearchIndexer *)

NoCollection == [exists |-> FALSE, entries |-> <<>>]

\* position of a column in df.columns
ColPos(df, col) == CHOOSE i \in 1..Len(df.columns) : df.columns[i] = col

\* df.to_dict(orient='records')[i]
RowDict(df, i) ==
    [c \in {df.columns[j] : j \in 1..Len(df.columns)} |-> df.rows[i][ColPos(df, c)]]

RECURSIVE add_batches_overlap(_, _, _, _)
add_batches_overlap(entries, all, i, reject_at) ==
    IF i >= Len(all) THEN [raised |-> FALSE, entries |-> entries]
    ELSE IF i = reject_at THEN [raised |-> TRUE, entries |-> entries]
    ELSE LET hi == IF i + batch_size + 1 < Len(all) THEN i + batch_size + 1 ELSE Len(all)
         IN add_batches_overlap(entries \o SubSeq(all, i + 1, hi), all,
                                i + batch_size, reject_at)

\* for i in range(0, len(documents), batch_size): collection.add(...)
\* reject_at is the 0-based start of the batch the backend rejects, -1 for none
RECURSIVE add_batches(_, _, _, _)
add_batches(entries, all, i, reject_at) ==
    IF i >= Len(all) THEN [raised |-> FALSE, entries |-> entries]
    ELSE IF i = reject_at THEN [raised |-> TRUE, entries |-> entries]
    ELSE LET hi == IF i + batch_size < Len(all) THEN i + batch_size ELSE Len(all)
         IN add_batches(entries \o SubSeq(all, i + 1, hi), all, i + batch_size, reject_at)

\* try: self.client.delete_collection(collection_name) / except: pass
delete_collection(collection) == NoCollection

\* self.client.create_collection(...), of a name that is not there
create_collection(collection) == [exists |-> TRUE, entries |-> <<>>]

\* documents, ids and metadatas, row by row
index_entries(df, key_col) ==
    [i \in 1..len(df) |->
        [id |-> ToString(df.index[i]),
         document |-> ToString(df.rows[i][ColPos(df, key_col)]),
         metadata |-> RowDict(df, i)]]

index_data_appends(collection, df, key_col, reject_at) ==
    LET r == add_batches(collection.entries, index_entries(df, key_col), 0, reject_at)
    IN [raised |-> r.raised,
        collection |-> [exists |-> TRUE, entries |-> r.entries]]

\* collection is the collection of that name as the call finds it
index_data(collection, df, key_col, reject_at) ==
    LET fresh == create_collection(delete_collection(collection))
        r == add_batches(fresh.entries, index_entries(df, key_col), 0, reject_at)
    IN [raised |-> r.raised,
        collection |-> [exists |-> TRUE, entries |-> r.entries]]

search(collection) ==
    IF ~collection.exists THEN [raised |-> TRUE, documents |-> <<>>]
    ELSE LET n == Len(collection.entries)
             k == IF n < n_results THEN n ELSE n_results
         IN [raised |-> FALSE,
             documents |-> [i \in 1..k |-> collection.entries[i].document]]

----------------------------------------------------------------------------
(* agent.py: TransformationAgent *)

\* get_rule_dictionary(), each description as its list of words
rule_dictionary ==
    [clean_emails |-> <<"Remove", "rows", "with", "invalid", "email", "formats">>,
     standardize_currency |-> <<"Convert", "all", "revenue", "columns", "to", "USD">>,
     remove_outliers |-> <<"Remove", "z-score", ">", "3", "in", "numeric", "columns">>,
     top_performers |-> <<"Filter", "top", "10%", "by", "sales">>]

\* texts the user types for the "Custom" rule; the first is the default text
CustomRules ==
    { <<"Filter", "rows", "where", "Sales", ">", "5000", "and", "Region", "is", "'North'">>,
      <<"Drop", "unfiltered", "duplicates">>,
      <<"Sort", "by", "sales">> }

\* str.lower() on the words that have an upper-case letter
lower(word) ==
    CASE word = "Filter" -> "filter"
      [] word = "Remove" -> "remove"
      [] word = "Convert" -> "convert"
      [] word = "USD" -> "usd"
      [] word = "Sales" -> "sales"
      [] word = "Region" -> "region"
      [] word = "'North'" -> "'north'"
      [] word = "Drop" -> "drop"
      [] word = "Sort" -> "sort"
      [] OTHER -> word

\* "filter" in text, for a text without blanks
contains_filter(word) == word \in {"filter", "unfiltered"}

filter_in_text(rule_description) ==
    \E i \in 1..Len(rule_description) : contains_filter(rule_description[i])

\* "filter" in rule_description.lower()
filter_in_lower(rule_description) ==
    \E i \in 1..Len(rule_description) : contains_filter(lower(rule_description[i]))

\* What llm.predict(prompt) does: it raises, or returns the response text
\* (a list of tokens here).
LLMOutcomes ==
    { [raised |-> TRUE,  response |-> <<>>],
      [raised |-> FALSE, response |-> <<"<fence>sql", "SELECT", "*", "FROM", "CURRENT_TABLE", "<fence>">>],
      [raised |-> FALSE, response |-> <<"SELECT", "*", "FROM", "CURRENT_TABLE", "LIMIT", "1">>],
      [raised |-> FALSE, response |-> <<"SELEC", "*", "FROM", "CURRENT_TABLE">>] }

IsFence(tok) == tok \in {"<fence>sql", "<fence>"}

\* response.strip().replace(<fence>sql, "").replace(<fence>, ""), where
\* <fence> stands for the three back quotes of a code fence
strip_fences(response) == SelectSeq(response, LAMBDA tok : ~IsFence(tok))

\* The result of apply_business_rule: raised, the frame returned, the branch
\* taken (path) and the dataset name execute_sql was called with, if any.
AgentResult(rsd, df, path, queried) ==
    [raised |-> rsd, df |-> df, path |-> path, queried |-> queried]

\* except Exception: ... return df
pass_through_none(df) == None

pass_through_empty(df) == EmptyFrame

pass_through(df) == df

apply_business_rule(lake, key, df, rule_description, llm) ==
    IF key THEN
        IF llm.raised THEN AgentResult(FALSE, pass_through(df), "ai_failed", NoFile)
        ELSE LET sql_query == strip_fences(llm.response)
                 r == execute_sql(lake, sql_query, "temp_staging")
             IN IF r.raised
                THEN AgentResult(FALSE, pass_through(df), "ai_failed", "temp_staging")
                ELSE AgentResult(FALSE, r.df, "ai", "temp_staging")
    ELSE IF filter_in_lower(rule_description)
         THEN AgentResult(FALSE, head(df, HeadRows), "manual", NoFile)
         ELSE AgentResult(FALSE, df, "manual", NoFile)

----------------------------------------------------------------------------
(* app.py: the session state and the button handlers *)

\* log(message), without the time stamp
LogEntry(kind, n, text) == [kind |-> kind, n |-> n, text |-> text]

log_twice(entries, entry) == Append(Append(entries, entry), entry)

log(entries, entry) == Append(entries, entry)

\* What the handler that ran last did: its name, whether it completed
\* without an error, the number of leaf component calls it made, and for
\* the agent the branch taken and the dataset name it queried.
Did(name, ok, calls, path, queried) ==
    [name |-> name, ok |-> ok, calls |-> calls, path |-> path, queried |-> queried]

Init ==
    /\ current_step = 0
    /\ data_state = None
    /\ logs = <<>>
    /\ dataset_name = "dataset"
    /\ index_col = NoCol
    /\ api_key \in BOOLEAN
    /\ data_lake = [p \in LakePaths |-> None]
    /\ demo_collection = NoCollection
    /\ last = Did("start", TRUE, 0, "", NoFile)

\* the except branch of "Ingest Data"
IngestFailed_named(uploaded_file, r) ==
    /\ logs' = log(logs, LogEntry("Error", 0, r.text))
    /\ last' = Did("ingest", FALSE, 1, "", NoFile)
    /\ dataset_name' = uploaded_file.name[1]
    /\ UNCHANGED <<data_state, current_step>>

IngestFailed(uploaded_file, r) ==
    /\ logs' = log(logs, LogEntry("Error", 0, r.text))
    /\ last' = Did("ingest", FALSE, 1, "", NoFile)
    /\ UNCHANGED <<data_state, dataset_name, current_step>>

Ingest_keeps_name(uploaded_file) ==
    /\ current_step = 0
    /\ Len(logs) < MaxLog
    /\ LET file_type == uploaded_file.name[Len(uploaded_file.name)]
           r == read_file(uploaded_file, file_type)
       IN IF ~r.raised
          THEN /\ data_state' = r.df
               /\ dataset_name' = dataset_name
               /\ logs' = log(logs, LogEntry("Ingested", len(r.df), FileName(uploaded_file)))
               /\ current_step' = 1
               /\ last' = Did("ingest", TRUE, 1, "", NoFile)
          ELSE IngestFailed(uploaded_file, r)
    /\ UNCHANGED <<index_col, api_key, data_lake, demo_collection>>

\* "Ingest Data"
Ingest(uploaded_file) ==
    /\ current_step = 0
    /\ Len(logs) < MaxLog
    /\ LET file_type == uploaded_file.name[Len(uploaded_file.name)]
           r == read_file(uploaded_file, file_type)
       IN IF ~r.raised
          THEN /\ data_state' = r.df
               /\ dataset_name' = uploaded_file.name[1]
               /\ logs' = log(logs, LogEntry("Ingested", len(r.df), FileName(uploaded_file)))
               /\ current_step' = 1
               /\ last' = Did("ingest", TRUE, 1, "", NoFile)
          ELSE IngestFailed(uploaded_file, r)
    /\ UNCHANGED <<index_col, api_key, data_lake, demo_collection>>

\* "Commit to Data Lake"; write_ok is whether df.to_parquet succeeds.  The
\* handler has no try: an error ends the script run with the state as it was.
Commit(write_ok) ==
    /\ current_step = 1
    /\ IF write_ok
       THEN /\ Len(logs) < MaxLog
            /\ data_lake' = save_to_bronze(data_lake, data_state, dataset_name)
            /\ logs' = log(logs, LogEntry("Data persisted to", 0, file_path(dataset_name)))
            /\ current_step' = 2
            /\ last' = Did("commit", TRUE, 1, "", NoFile)
       ELSE /\ last' = Did("commit", FALSE, 1, "", NoFile)
            /\ UNCHANGED <<data_lake, logs, current_step>>
    /\ UNCHANGED <<data_state, dataset_name, index_col, api_key, demo_collection>>

\* "Build Vector Index" on the column chosen in the select box
BuildIndex(col, reject_at) ==
    /\ current_step = 2
    /\ col \in {data_state.columns[j] : j \in 1..Len(data_state.columns)}
    /\ LET r == index_data(demo_collection, data_state, col, reject_at)
       IN /\ demo_collection' = r.collection
          /\ IF ~r.raised
             THEN /\ Len(logs) < MaxLog
                  /\ logs' = log(logs, LogEntry("Vector index built on column:", 0, col))
                  /\ index_col' = col
                  /\ current_step' = 3
                  /\ last' = Did("index", TRUE, 1, "", NoFile)
             ELSE /\ last' = Did("index", FALSE, 1, "", NoFile)
                  /\ UNCHANGED <<logs, index_col, current_step>>
    /\ UNCHANGED <<data_state, dataset_name, api_key, data_lake>>

Proceed_skip ==
    /\ current_step = 3
    /\ current_step' = 5
    /\ last' = Did("advance", TRUE, 0, "", NoFile)
    /\ UNCHANGED <<data_state, logs, dataset_name, index_col, api_key,
                   data_lake, demo_collection>>

\* "Proceed to Transformation"
Proceed ==
    /\ current_step = 3
    /\ current_step' = 4
    /\ last' = Did("advance", TRUE, 0, "", NoFile)
    /\ UNCHANGED <<data_state, logs, dataset_name, index_col, api_key,
                   data_lake, demo_collection>>

Search_after_staging ==
    /\ current_step \in {3, 4}
    /\ last' = Did("search", ~search(demo_collection).raised, 1, "", NoFile)
    /\ UNCHANGED <<current_step, data_state, logs, dataset_name, index_col,
                   api_key, data_lake, demo_collection>>

\* a query typed into the search box of stage 4's second tab
Search ==
    /\ current_step = 3
    /\ last' = Did("search", ~search(demo_collection).raised, 1, "", NoFile)
    /\ UNCHANGED <<current_step, data_state, logs, dataset_name, index_col,
                   api_key, data_lake, demo_collection>>

\* the radio button and the text area of stage 5
RuleChoices ==
    {<<"Custom", text>> : text \in CustomRules}
        \cup {<<name, rule_dictionary[name]>> : name \in DOMAIN rule_dictionary}

\* "Execute Agent Job"
ExecuteAgentJob(selected_rule, rule_input, llm) ==
    /\ current_step = 4
    /\ Len(logs) < MaxLog
    /\ LET r == apply_business_rule(data_lake, api_key, data_state, rule_input, llm)
       IN IF ~r.raised
          THEN /\ data_state' = r.df
               /\ logs' = log(logs, LogEntry("Applied rule:", 0, selected_rule))
               /\ last' = Did("apply", TRUE, 1, r.path, r.queried)
          ELSE /\ last' = Did("apply", FALSE, 1, r.path, r.queried)
               /\ UNCHANGED <<data_state, logs>>
    /\ UNCHANGED <<current_step, dataset_name, index_col, api_key, data_lake,
                   demo_collection>>

\* "Finalize & Load"
Finalize ==
    /\ current_step = 4
    /\ current_step' = 5
    /\ last' = Did("advance", TRUE, 0, "", NoFile)
    /\ UNCHANGED <<data_state, logs, dataset_name, index_col, api_key,
                   data_lake, demo_collection>>

Reset_keeps_data ==
    /\ current_step = 5
    /\ current_step' = 0
    /\ last' = Did("reset", TRUE, 0, "", NoFile)
    /\ UNCHANGED <<data_state, logs, dataset_name, index_col, api_key,
                   data_lake, demo_collection>>

Reset_any_stage ==
    /\ current_step' = 0
    /\ data_state' = None
    /\ last' = Did("reset", TRUE, 0, "", NoFile)
    /\ UNCHANGED <<logs, dataset_name, index_col, api_key, data_lake,
                   demo_collection>>

Reset_clears_logs ==
    /\ current_step = 5
    /\ current_step' = 0
    /\ data_state' = None
    /\ logs' = <<>>
    /\ last' = Did("reset", TRUE, 0, "", NoFile)
    /\ UNCHANGED <<dataset_name, index_col, api_key, data_lake,
                   demo_collection>>

\* "Start New Pipeline"
Reset ==
    /\ current_step = 5
    /\ current_step' = 0
    /\ data_state' = None
    /\ last' = Did("reset", TRUE, 0, "", NoFile)
    /\ UNCHANGED <<logs, dataset_name, index_col, api_key, data_lake,
                   demo_collection>>

Next ==
    \/ \E f \in Uploads : Ingest(f)
    \/ \E write_ok \in BOOLEAN : Commit(write_ok)
    \/ \E col \in {"region", "sales", "content", "page"}, reject_at \in {-1, 0} :
           BuildIndex(col, reject_at)
    \/ Proceed
    \/ Search
    \/ \E rc \in RuleChoices, llm \in LLMOutcomes : ExecuteAgentJob(rc[1], rc[2], llm)
    \/ Finalize
    \/ Reset

Spec == Init /\ [][Next]_vars

\* The first three stages on files whose row counts lie around the batch
\* size of the indexer: none, one, one less than a batch, a full batch, one
\* more, two batches, and two batches and a part.
BatchRowCounts ==
    {0, 1, batch_size - 1, batch_size, batch_size + 1, 2 * batch_size,
     2 * batch_size + MaxRows}

BatchUploads ==
    {[name |-> <<"sales", "csv">>, tag |-> 1, valid |-> TRUE, nrows |-> n] :
        n \in BatchRowCounts}
    \cup {[name |-> <<"doc", "pdf">>, tag |-> 4, valid |-> TRUE, nrows |-> n] :
        n \in BatchRowCounts}

NextBatch ==
    \/ \E f \in BatchUploads : Ingest(f)
    \/ \E write_ok \in BOOLEAN : Commit(write_ok)
    \/ \E col \in {"region", "sales", "content", "page"},
          reject_at \in {-1, 0, batch_size, 2 * batch_size} :
           BuildIndex(col, reject_at)

BatchSpec == Init /\ [][NextBatch]_vars

----------------------------------------------------------------------------
(* Properties of the pipeline controller *)

\* the log shows two successful ingests: a second run, after a reset
SecondRun ==
    \E i, j \in 1..Len(logs) :
        i < j /\ logs[i].kind = "Ingested" /\ logs[j].kind = "Ingested"

\* C1: the stage is always in 0..5, and every step that is not a reset
\* leaves the stage as it is or raises it by exactly 1.
C1_StageForward ==
    /\ [](current_step \in 0..5)
    /\ [][last'.name # "reset" =>
            current_step' \in {current_step, current_step + 1}]_vars

C1_Witness == current_step = 5 /\ last.name = "advance"

\* C2 as stated: a failed ingest, commit, index build or search leaves the
\* stage, the dataset, the dataset name and the log unchanged.
C2_FailureChangesNothing ==
    [][(~last'.ok /\ last'.name \in {"ingest", "commit", "index", "search"})
          => UNCHANGED <<current_step, data_state, dataset_name, logs>>]_vars

\* C2, amended: a failed commit, index build or search leaves the stage, the
\* dataset, the dataset name and the log unchanged; a failed ingest leaves
\* the stage, the dataset and the dataset name unchanged and appends exactly
\* one "Error" entry to the log.
C2_FailureKeepsState ==
    [][(~last'.ok /\ last'.name \in {"ingest", "commit", "index", "search"})
          => /\ UNCHANGED <<current_step, data_state, dataset_name>>
             /\ IF last'.name = "ingest"
                THEN /\ Len(logs') = Len(logs) + 1
                     /\ SubSeq(logs', 1, Len(logs)) = logs
                     /\ logs'[Len(logs')].kind = "Error"
                ELSE logs' = logs]_vars

C2_Witness ==
    /\ last.name = "ingest" /\ ~last.ok
    /\ Len(logs) > 0 /\ logs[Len(logs)].kind = "Error"
    /\ current_step = 0

\* C3: in every reachable state with stage >= 1 the dataset is present.
C3_DatasetPresent == current_step >= 1 => data_state # None

C3_Witness ==
    /\ current_step = 4 /\ last.name = "apply" /\ last.path = "ai"
    /\ data_state # None

\* C4: right after a reset the stage is 0 and the dataset is absent.
C4_ResetClears == last.name = "reset" => (current_step = 0 /\ data_state = None)

C4_Witness == last.name = "reset" /\ current_step = 0 /\ data_state = None

\* C5 as stated: reset is enabled in every reachable state.
C5_ResetAlwaysEnabled == ENABLED Reset

\* C5, amended: reset is enabled exactly in stage 5 (Serve); in the stages
\* 0..4 there is no reset.
C5_ResetOnlyInServe == (ENABLED Reset) <=> (current_step = 5)

C5_Witness == current_step = 5 /\ SecondRun /\ ENABLED Reset

\* C6: right after a reset the dataset name is back to its initial value.
C6_ResetClearsName == last.name = "reset" => dataset_name = "dataset"

\* C7 as stated: every successful ingest, commit, index build, rule
\* application, advance and reset makes exactly one leaf component call,
\* appends exactly one log entry and raises the stage by exactly 1 (reset:
\* sets it to 0).
C7_OneCallOneLogOneStage ==
    [][(last'.ok /\ last'.name \in {"ingest", "commit", "index", "apply",
                                    "advance", "reset"})
          => /\ last'.calls = 1
             /\ Len(logs') = Len(logs) + 1
             /\ IF last'.name = "reset" THEN current_step' = 0
                ELSE current_step' = current_step + 1]_vars

\* C7, amended: every successful ingest, commit and index build makes exactly
\* one leaf component call, appends exactly one log entry and raises the
\* stage by exactly 1; a successful rule application makes exactly one leaf
\* call and appends exactly one log entry but leaves the stage as it is;
\* an advance (3->4, 4->5) raises the stage by exactly 1 and a reset sets it
\* to 0, both without a leaf call and without a log entry.
C7_PerActionEffect ==
    [][LET one_log == /\ Len(logs') = Len(logs) + 1
                      /\ SubSeq(logs', 1, Len(logs)) = logs
       IN last'.ok =>
            CASE last'.name \in {"ingest", "commit", "index"} ->
                    /\ last'.calls = 1 /\ one_log
                    /\ current_step' = current_step + 1
              [] last'.name = "apply" ->
                    /\ last'.calls = 1 /\ one_log
                    /\ current_step' = current_step
              [] last'.name = "advance" ->
                    /\ last'.calls = 0 /\ logs' = logs
                    /\ current_step' = current_step + 1
              [] last'.name = "reset" ->
                    /\ last'.calls = 0 /\ logs' = logs
                    /\ current_step' = 0
              [] OTHER -> TRUE]_vars

C7_Witness ==
    /\ last.name = "apply" /\ last.ok /\ current_step = 4
    /\ logs[Len(logs)].kind = "Applied rule:"

\* C8: every step leaves the log before it as a prefix of the log after it.
C8_LogAppendOnly ==
    [][/\ Len(logs') >= Len(logs)
       /\ SubSeq(logs', 1, Len(logs)) = logs]_vars

C8_Witness == last.name = "reset" /\ Len(logs) >= 3 /\ current_step = 0

\* C9: whenever the agent has run its SQL, it ran it on the file of the
\* current dataset name, and that file had been committed.
C9_QueriesCommittedDataset ==
    (last.name = "apply" /\ last.queried # NoFile)
        => /\ last.queried = dataset_name
           /\ exists(data_lake, file_path(last.queried))

\* C10: when the model path of the agent fails, the rule application raises
\* no error and leaves the held dataset and the stage as they were.
C10_FailedModelPathIsNoOp ==
    [][(last'.name = "apply" /\ last'.path = "ai_failed")
          => /\ last'.ok
             /\ data_state' = data_state
             /\ current_step' = current_step]_vars

C10_Witness ==
    /\ last.name = "apply" /\ last.path = "ai_failed"
    /\ last.queried = "temp_staging" /\ api_key
    /\ data_state # None /\ current_step = 4

----------------------------------------------------------------------------
(* Properties of the leaf components *)

\* the rule descriptions that contain "filter" in some letter case
FilterDescriptions ==
    { <<"Filter", "top", "10%", "by", "sales">>,
      <<"Filter", "rows", "where", "Sales", ">", "5000", "and", "Region", "is", "'North'">>,
      <<"Drop", "unfiltered", "duplicates">> }

Min(a, b) == IF a < b THEN a ELSE b

\* the first min(10, rowcount) rows, in order, under the same columns
FirstTen(df) ==
    [columns |-> df.columns,
     index |-> [i \in 1..Min(10, Len(df.rows)) |-> df.index[i]],
     rows |-> [i \in 1..Min(10, Len(df.rows)) |-> df.rows[i]]]

\* C11: without a credential, a rule application stores the first
\* min(10, rowcount) rows of the held dataset if the description contains
\* "filter" in any letter case, and the held dataset unchanged otherwise.
C11_ManualFallback ==
    [][\A rc \in RuleChoices, llm \in LLMOutcomes :
          (~api_key /\ ExecuteAgentJob(rc[1], rc[2], llm))
              => data_state' = IF rc[2] \in FilterDescriptions
                               THEN FirstTen(data_state)
                               ELSE data_state]_vars

C11_Witness ==
    /\ ~api_key /\ last.name = "apply" /\ last.path = "manual"
    /\ Len(data_state.rows) = 10
    /\ \E i \in 1..Len(logs) : logs[i].kind = "Ingested" /\ logs[i].n > 10

\* the columns, their order and the cell values of a frame
Content(df) == [columns |-> df.columns, rows |-> df.rows]

\* the log has an entry for a commit to the file of this dataset name
CommittedOnce(name) ==
    \E i \in 1..Len(logs) :
        logs[i].kind = "Data persisted to" /\ logs[i].text = file_path(name)

\* C12: the store is a last-write-wins map keyed by dataset name: a name
\* never committed loads as the empty dataset, a successful commit makes its
\* name load as the committed dataset (columns, order and values), replacing
\* what the name loaded as before, and every other name loads as before.
C12_LastWriteWins ==
    /\ [](\A n \in DatasetNames :
             ~CommittedOnce(n) => load_dataset(data_lake, n) = EmptyFrame)
    /\ [][\A n \in DatasetNames :
             Content(load_dataset(data_lake', n)) =
                 IF last'.name = "commit" /\ last'.ok /\ n = dataset_name
                 THEN Content(data_state)
                 ELSE Content(load_dataset(data_lake, n))]_vars

\* a second commit under a name, of a dataset from another file
C12_Witness ==
    /\ last.name = "commit" /\ last.ok
    /\ \E i, j \in 1..Len(logs) :
           /\ i < j /\ j = Len(logs)
           /\ logs[i].kind = "Data persisted to" /\ logs[j] = logs[i]
    /\ \E i, j \in 1..Len(logs) :
           /\ logs[i].kind = "Ingested" /\ logs[j].kind = "Ingested"
           /\ logs[i].text # logs[j].text
    /\ Content(load_dataset(data_lake, dataset_name)) = Content(data_state)

\* the declared types read_file has a parser for
SupportedTypes == {"csv", "excel", "json", "pdf"}

\* C13: an ingest with a declared type outside the supported set fails, and
\* the kind of error read_file raises for it differs from the kind it raises
\* when the parser of a supported type fails.
C13_UnsupportedFormatIsDistinct ==
    [][\A f \in Uploads :
          (Ingest(f) /\ f.name[Len(f.name)] \notin SupportedTypes)
              => LET r == read_file(f, f.name[Len(f.name)])
                 IN /\ r.raised
                    /\ \A g \in Uploads, t \in SupportedTypes :
                           read_file(g, t).raised => read_file(g, t).error # r.error]_vars

\* row i of a frame as the mapping from column name to value
RowRecord(df, i) ==
    IF df.columns = <<"region", "sales">>
    THEN [region |-> df.rows[i][1], sales |-> df.rows[i][2]]
    ELSE [content |-> df.rows[i][1], page |-> df.rows[i][2]]

\* C14: after a successful index build, also one that follows an earlier
\* build for another dataset and a reset, the collection holds one entry per
\* row of the dataset just indexed and no entry of any other row.
C14_IndexReplaces ==
    (last.name = "index" /\ last.ok)
        => /\ demo_collection.exists
           /\ Len(demo_collection.entries) = Len(data_state.rows)
           /\ {demo_collection.entries[i].metadata : i \in 1..Len(demo_collection.entries)}
                  = {RowRecord(data_state, i) : i \in 1..Len(data_state.rows)}

C14_Witness ==
    /\ last.name = "index" /\ last.ok /\ current_step = 3
    /\ \E i, j \in 1..Len(logs) :
           /\ i < j
           /\ logs[i].kind = "Vector index built on column:"
           /\ logs[j].kind = "Ingested"
           /\ \E k \in 1..Len(logs) :
                  k < i /\ logs[k].kind = "Ingested" /\ logs[k].text # logs[j].text

\* the collection has an entry for a row that the held dataset does not have
StaleEntry ==
    /\ data_state # None
    /\ \E i \in 1..Len(demo_collection.entries) :
           demo_collection.entries[i].metadata
               \notin {RowRecord(data_state, k) : k \in 1..Len(data_state.rows)}

\* C15 as stated: once a transformation has left the collection with an
\* entry for a row that is no longer in the held dataset, a search can be
\* performed against it.
C15_SearchOnStaleCollection ==
    (last.name = "apply" /\ StaleEntry) => ENABLED Search

\* C15, amended: a transformation leaves the collection exactly as it was
\* built, but no search can run after it: whenever a search has run or can
\* run, every entry of the collection is for a row of the held dataset.
C15_SearchSeesHeldRows ==
    /\ []((last.name = "search" \/ ENABLED Search) => ~StaleEntry)
    /\ [][last'.name = "apply" => demo_collection' = demo_collection]_vars

C15_Witness ==
    /\ last.name = "apply" /\ last.ok /\ StaleEntry
    /\ current_step = 4 /\ ~ENABLED Search

\* C16: after a successful index build of a dataset of n rows the collection
\* has exactly n entries, and entry i has the label of row i as its id, the
\* key column's value of row i as its document and row i as its metadata:
\* no row is left out or added twice where one batch ends and the next begins.
C16_EveryRowOnceInOrder ==
    (last.name = "index" /\ last.ok)
        => demo_collection.entries =
              [i \in 1..Len(data_state.rows) |->
                  [id |-> ToString(data_state.index[i]),
                   document |-> ToString(data_state.rows[i]
                                   [IF index_col \in {"region", "content"} THEN 1 ELSE 2]),
                   metadata |-> RowRecord(data_state, i)]]

C16_Witness ==
    /\ last.name = "index" /\ last.ok
    /\ Len(demo_collection.entries) > 2 * batch_size
    /\ Len(demo_collection.entries) % batch_size # 0

\* the file extensions the upload widget accepts
AcceptedTypes == {"csv", "xlsx", "pdf", "json"}

\* C17: an ingest of a file with an accepted extension that its parser can
\* read passes a type tag read_file has a parser for, stores the dataset and
\* moves from stage 0 to stage 1.
C17_AcceptedFilesIngest ==
    [][\A f \in Uploads :
          (Ingest(f) /\ f.name[Len(f.name)] \in AcceptedTypes /\ f.valid)
              => /\ f.name[Len(f.name)] \in SupportedTypes
                 /\ current_step = 0 /\ current_step' = 1
                 /\ data_state' # None]_vars

\* the file of the last successful ingest, as the log names it
IngestedFile ==
    LET i == CHOOSE k \in 1..Len(logs) :
                 /\ logs[k].kind = "Ingested"
                 /\ \A m \in (k + 1)..Len(logs) : logs[m].kind # "Ingested"
    IN CHOOSE f \in Uploads : FileName(f) = logs[i].text

\* C18: in every state with stage >= 2 the dataset name is the base name of
\* the file ingested in the current run, the store has a file under that
\* name, and the file holds the dataset as that ingest read it.
C18_CommittedFileOfThisRun ==
    current_step >= 2
        => /\ dataset_name = IngestedFile.name[1]
           /\ exists(data_lake, file_path(dataset_name))
           /\ Content(data_lake[file_path(dataset_name)])
                  = Content(IF IngestedFile.name[Len(IngestedFile.name)] = "pdf"
                            THEN PagesOf(IngestedFile) ELSE TableOf(IngestedFile))

\* stage 2 of a second run, on a file with another base name than the first
C18_Witness ==
    /\ current_step = 2 /\ last.name = "commit"
    /\ \E i, j \in 1..Len(logs) :
           /\ i < j
           /\ logs[i].kind = "Data persisted to" /\ logs[j].kind = "Data persisted to"
           /\ logs[i].text # logs[j].text
           /\ logs[j].text = file_path(dataset_name)

====
